---- MODULE Spec2Model ----
(***************************************************************************)
(* A model of weather_dashboard.py: the cached fetch of the CWA 36-hour    *)
(* forecast (fetch_cwa_weather), its flattening into rows                  *)
(* (parse_cwa_data), and the script's top-to-bottom flow (step1..step5),   *)
(* which Streamlit runs again on every user interaction.                   *)
(*                                                                         *)
(* Texts (parameterName, startTime, locationName) are sequences of         *)
(* one-character strings, so that parsing and string comparison are        *)
(* computed and not assumed.  A numeric column value is <<v>>, and NaN     *)
(* (pandas' empty value after errors="coerce") is <<>>.                    *)
(*                                                                         *)
(* The module-level name CWA_API_KEY (line 35) is taken to be bound by the *)
(* deployment; the model starts where the functions are defined.           *)
(***************************************************************************)
EXTENDS Integers, Sequences, FiniteSets, TLC

VARIABLES
    now,        \* the cache's clock (time.monotonic), in seconds
    cache,      \* st.cache_data's single entry for fetch_cwa_weather()
    netCalls,   \* number of requests.get calls issued so far
    lastCall,   \* how the last fetch_cwa_weather() call was served
    pc,         \* position of the script run
    raw,        \* the script's variable raw
    df,         \* the script's variable df
    error,      \* the exception caught at step1, "none" if none
    sel_city,   \* the script's variable sel_city
    city_df,    \* the script's variable city_df
    shown,      \* what steps 3 and 4 have drawn in this run
    sample      \* the row step5 took with city_df.iloc[0]

vars == <<now, cache, netCalls, lastCall, pc, raw, df, error, sel_city,
          city_df, shown, sample>>

----------------------------------------------------------------------------
(* Bounds of the model *)

MaxRegions == 2
MaxPoints == 2
MaxAdvances == 4
MaxCalls == 3

----------------------------------------------------------------------------
(* Texts *)

\* The characters the model's texts are written in, in ASCII order.
Alphabet == <<"-", "/", "0", "1", "2", "3", "4", "5", "6", "7", "8", "9",
              "A", "H", "K", "N", "P", "T">>

CharCode(c) == CHOOSE i \in 1..Len(Alphabet) : Alphabet[i] = c

Digits == <<"0", "1", "2", "3", "4", "5", "6", "7", "8", "9">>

IsDigit(c) == \E i \in 1..Len(Digits) : Digits[i] = c

DigitVal(c) == (CHOOSE i \in 1..Len(Digits) : Digits[i] = c) - 1

\* Python's str comparison: lexicographic by code point, a proper prefix first.
RECURSIVE StrLess(_, _)
StrLess(a, b) ==
    IF b = <<>> THEN FALSE
    ELSE IF a = <<>> THEN TRUE
    ELSE IF a[1] # b[1] THEN CharCode(a[1]) < CharCode(b[1])
    ELSE StrLess(Tail(a), Tail(b))

\* The decimal text of a number of at most two digits.
Unsigned(m) ==
    IF m < 10 THEN <<Digits[m + 1]>>
    ELSE <<Digits[(m \div 10) + 1], Digits[(m % 10) + 1]>>

\* The decimal text of k, -100 < k < 100.
NumText(k) == IF k < 0 THEN <<"-">> \o Unsigned(0 - k) ELSE Unsigned(k)

\* A zero-padded two-digit time text, so that string order is time order.
TimeAt(i) == <<Digits[(i \div 10) + 1], Digits[(i % 10) + 1]>>

NaN == <<>>

RECURSIVE DigitsValue(_, _)
DigitsValue(s, acc) ==
    IF s = <<>> THEN acc
    ELSE DigitsValue(Tail(s), 10 * acc + DigitVal(s[1]))

\* A mutant of ToNumeric: a text that does not parse becomes 0, not NaN.
ToNumericZero(s) ==
    LET neg == s # <<>> /\ s[1] = "-"
        body == IF neg THEN Tail(s) ELSE s
    IN  IF body = <<>> \/ \E i \in 1..Len(body) : ~IsDigit(body[i])
        THEN <<0>>
        ELSE <<(IF neg THEN -1 ELSE 1) * DigitsValue(body, 0)>>

\* pd.to_numeric(..., errors="coerce") on one value, for texts over Alphabet:
\* an optional minus sign and one or more digits parse, anything else is NaN.
ToNumeric(s) ==
    LET neg == s # <<>> /\ s[1] = "-"
        body == IF neg THEN Tail(s) ELSE s
    IN  IF body = <<>> \/ \E i \in 1..Len(body) : ~IsDigit(body[i])
        THEN NaN
        ELSE <<(IF neg THEN -1 ELSE 1) * DigitsValue(body, 0)>>

----------------------------------------------------------------------------
(* The upstream documents the model draws from *)

Names == { <<"K", "H">>, <<"T", "P">> }

Variants == {"ok", "desc", "tie", "naPoP", "naMinT", "naMaxT", "negMinT",
             "noWx", "noPoP", "shortMinT", "longMaxT", "longPoP"}

Entry(start, end, text) ==
    [startTime |-> start, endTime |-> end, parameter |-> [parameterName |-> text]]

\* The start slot of time point i of a region with n points.
StartSlot(variant, n, i) ==
    IF variant = "desc" THEN n - i + 1
    ELSE IF variant = "tie" THEN (i + 1) \div 2
    ELSE i

WxText(i) == IF i % 2 = 1 THEN <<"A">> ELSE <<"N">>

PoPText(variant, n, i) ==
    IF variant = "naPoP" /\ i = n THEN <<"N", "/", "A">> ELSE NumText(10 * i)

MinTText(variant, n, i) ==
    IF variant = "naMinT" /\ i = n THEN <<"N", "/", "A">>
    ELSE IF variant = "negMinT" /\ i = n THEN NumText(-5)
    ELSE NumText(17 + i)

MaxTText(variant, n, i) ==
    IF variant = "naMaxT" /\ i = n THEN <<"2", "-">> ELSE NumText(22 + 2 * i)

SeriesLen(variant, name, n) ==
    IF variant = "shortMinT" /\ name = "MinT" THEN n - 1
    ELSE IF variant = "longMaxT" /\ name = "MaxT" THEN n + 1
    ELSE IF variant = "longPoP" /\ name = "PoP" THEN n + 1
    ELSE n

Series(variant, name, n) ==
    [i \in 1..SeriesLen(variant, name, n) |->
        Entry(TimeAt(StartSlot(variant, n, i)), TimeAt(StartSlot(variant, n, i) + 1),
              CASE name = "Wx" -> WxText(i)
                [] name = "PoP" -> PoPText(variant, n, i)
                [] name = "MinT" -> MinTText(variant, n, i)
                [] OTHER -> MaxTText(variant, n, i))]

Element(variant, name, n) ==
    IF (variant = "noWx" /\ name = "Wx") \/ (variant = "noPoP" /\ name = "PoP")
    THEN <<>>
    ELSE <<[elementName |-> name, time |-> Series(variant, name, n)]>>

MkLocation(city, variant, n) ==
    [locationName |-> city,
     weatherElement |-> Element(variant, "Wx", n) \o Element(variant, "PoP", n)
                        \o Element(variant, "MinT", n) \o Element(variant, "MaxT", n)]

\* The locations of the model: a regular one of every length up to
\* MaxPoints, and every variant at the full length and at length zero.
Locations ==
    { MkLocation(t[1], t[2], t[3]) :
        t \in { u \in Names \X Variants \X (0..MaxPoints) :
                  /\ u[2] = "ok" \/ u[3] \in {0, MaxPoints}
                  /\ u[2] = "shortMinT" => u[3] >= 1 } }

MkDocument(locs) == [records |-> [location |-> locs]]

\* Bodies that are JSON but lack the records/location structure.
MalformedDocuments ==
    { [success |-> "false"], [records |-> [datasetDescription |-> <<"A">>]] }

Documents ==
    { MkDocument(locs) : locs \in UNION { [1..k -> Locations] : k \in 0..MaxRegions } }
    \cup MalformedDocuments

----------------------------------------------------------------------------
(* parse_cwa_data *)

\* {e["elementName"]: e["time"] for e in loc["weatherElement"]}: the last
\* element of a name wins.
Elements(loc) ==
    LET we == loc.weatherElement
    IN  [name \in { we[i].elementName : i \in 1..Len(we) } |->
            we[CHOOSE i \in 1..Len(we) :
                  /\ we[i].elementName = name
                  /\ \A j \in (i + 1)..Len(we) : we[j].elementName # name].time]

\* The exception elements[name][i] raises (i counted from 1), "none" if none.
CellError(elements, name, i) ==
    IF name \notin DOMAIN elements THEN "KeyError"
    ELSE IF i > Len(elements[name]) THEN "IndexError"
    ELSE "none"

\* The exception the row literal of lines 62-70 raises: its values are
\* evaluated in order, Wx (in range by the loop), then PoP, MinT, MaxT.
RowError(elements, i) ==
    IF CellError(elements, "PoP", i) # "none" THEN CellError(elements, "PoP", i)
    ELSE IF CellError(elements, "MinT", i) # "none" THEN CellError(elements, "MinT", i)
    ELSE CellError(elements, "MaxT", i)

Row(city, elements, i) ==
    [city |-> city,
     startTime |-> elements["Wx"][i].startTime,
     endTime |-> elements["Wx"][i].endTime,
     weather |-> elements["Wx"][i].parameter.parameterName,
     pop |-> elements["PoP"][i].parameter.parameterName,
     minT |-> elements["MinT"][i].parameter.parameterName,
     maxT |-> elements["MaxT"][i].parameter.parameterName]

\* The inner loop, for i in range(len(elements["Wx"])), from row i on.
RECURSIVE LocationRows(_, _, _, _)
LocationRows(city, elements, i, acc) ==
    IF i > Len(elements["Wx"]) THEN [err |-> "none", rows |-> acc]
    ELSE IF RowError(elements, i) # "none"
         THEN [err |-> RowError(elements, i), rows |-> acc]
    ELSE LocationRows(city, elements, i + 1, Append(acc, Row(city, elements, i)))

\* The outer loop, for loc in locations, from location k on.
RECURSIVE CollectRows(_, _, _)
CollectRows(locations, k, acc) ==
    IF k > Len(locations) THEN [err |-> "none", rows |-> acc]
    ELSE LET elements == Elements(locations[k])
         IN  IF "Wx" \notin DOMAIN elements THEN [err |-> "KeyError", rows |-> acc]
             ELSE LET r == LocationRows(locations[k].locationName, elements, 1, acc)
                  IN  IF r.err # "none" THEN r
                      ELSE CollectRows(locations, k + 1, r.rows)

RowColumns == {"city", "startTime", "endTime", "weather", "pop", "minT", "maxT"}

\* A mutant of Columns: the frame has its columns even with no rows.
ColumnsFixed(rows) == RowColumns

\* The columns of pd.DataFrame(rows): those of the row dicts, none for [].
Columns(rows) == IF rows = <<>> THEN {} ELSE RowColumns

\* df[col] = pd.to_numeric(df[col], errors="coerce")
ToNumericColumn(rows, col) ==
    [i \in 1..Len(rows) |-> [rows[i] EXCEPT ![col] = ToNumeric(@)]]

Raised(e) == [ok |-> FALSE, err |-> e, rows |-> <<>>]

\* parse_cwa_data(data): the frame's rows, or the exception it raises.
ParseCwaData(data) ==
    IF "records" \notin DOMAIN data THEN Raised("KeyError")
    ELSE IF "location" \notin DOMAIN data.records THEN Raised("KeyError")
    ELSE LET c == CollectRows(data.records.location, 1, <<>>)
         IN  IF c.err # "none" THEN Raised(c.err)
             ELSE IF "pop" \notin Columns(c.rows) THEN Raised("KeyError")
             ELSE [ok |-> TRUE, err |-> "none",
                   rows |-> ToNumericColumn(
                              ToNumericColumn(
                                ToNumericColumn(c.rows, "pop"), "minT"), "maxT")]

----------------------------------------------------------------------------
(* The selection of step2 *)

None == <<"None">>

RECURSIVE SetToSortedSeq(_)
SetToSortedSeq(S) ==
    IF S = {} THEN <<>>
    ELSE LET m == CHOOSE x \in S : \A y \in S : ~StrLess(y, x)
         IN  <<m>> \o SetToSortedSeq(S \ {m})

\* sorted(df["city"].unique().tolist())
Cities(rows) == SetToSortedSeq({ rows[i].city : i \in 1..Len(rows) })

\* df[df["city"] == city]
FilterCity(rows, city) == SelectSeq(rows, LAMBDA r : r.city = city)

\* The rows of index set S with the least startTime.
Least(rows, S) ==
    { i \in S : \A j \in S : ~StrLess(rows[j].startTime, rows[i].startTime) }

\* Every order of the rows of S that is non-decreasing by startTime.
RECURSIVE SortedOrders(_, _)
SortedOrders(rows, S) ==
    IF S = {} THEN {<<>>}
    ELSE UNION { { <<rows[i]>> \o t : t \in SortedOrders(rows, S \ {i}) } :
                 i \in Least(rows, S) }

\* rows.sort_values("startTime"): kind defaults to "quicksort", which pandas
\* documents as not stable, so rows of equal startTime come in any order.
SortValues(rows) == SortedOrders(rows, 1..Len(rows))

----------------------------------------------------------------------------
(* fetch_cwa_weather and its cache *)

\* @st.cache_data(ttl=900)
TTL == 900

\* The clock advances in steps of half the TTL, so that an entry is seen
\* younger than the TTL, exactly as old, and older.
Advance == TTL \div 2

NoDocument == <<>>

EmptyCache == [has |-> FALSE, ts |-> 0, doc |-> NoDocument]

\* A mutant of Expired: an entry exactly ttl old still counts as fresh.
ExpiredAfter(c, t) == t - c.ts > TTL

\* st.cache_data keeps the entry in a cachetools.TTLCache, which sets
\* expires = timer() + ttl at the write and serves an entry only while
\* timer() < expires.
Expired(c, t) == ~(t < c.ts + TTL)

\* Whether a call at time t is served from the cache.
CacheValid(c, t) == c.has /\ ~Expired(c, t)

\* A mutant of CacheAfterFailure: a failed call drops the entry.
CacheDroppedAfterFailure(c) == EmptyCache

\* The cache after a call whose function raised: the wrapper stores a value
\* only once the function has returned one.
CacheAfterFailure(c) == c

\* requests.get times out, raise_for_status() meets a non-2xx status, or
\* r.json() cannot decode the body.
FetchFailures == {"Timeout", "HTTPError", "JSONDecodeError"}

\* The bodies upstream answers with in the model of the whole script.
Responses ==
    { d \in Documents : d \in MalformedDocuments \/ Len(d.records.location) <= 1 }

Unbound == [bound |-> FALSE, rows |-> <<>>]

\* A mutant of ExceptHandler: the error is shown and the script goes on.
ExceptHandlerNoStop(e) == [error |-> e, pc |-> "step2"]

\* except Exception as e: st.error(...); st.stop()
ExceptHandler(e) == [error |-> e, pc |-> "stopped"]

Init ==
    /\ now = 0
    /\ cache = EmptyCache
    /\ netCalls = 0
    /\ lastCall = "none"
    /\ pc = "step1"
    /\ raw = NoDocument
    /\ df = Unbound
    /\ error = "none"
    /\ sel_city = None
    /\ city_df = <<>>
    /\ shown = <<>>
    /\ sample = <<>>

\* Time passes between two script runs.
Tick ==
    /\ pc = "step1"
    /\ now < MaxAdvances * Advance
    /\ now' = now + Advance
    /\ UNCHANGED <<cache, netCalls, lastCall, pc, raw, df, error, sel_city,
                   city_df, shown, sample>>

\* raw = fetch_cwa_weather(), served from the cache.
FetchHit ==
    /\ pc = "step1"
    /\ CacheValid(cache, now)
    /\ raw' = cache.doc
    /\ lastCall' = "hit"
    /\ pc' = "parse"
    /\ UNCHANGED <<now, cache, netCalls, df, error, sel_city, city_df, shown, sample>>

\* raw = fetch_cwa_weather(), the function body runs and returns r.json().
FetchOk ==
    /\ pc = "step1"
    /\ ~CacheValid(cache, now)
    /\ netCalls < MaxCalls
    /\ \E d \in Responses :
        /\ cache' = [has |-> TRUE, ts |-> now, doc |-> d]
        /\ raw' = d
    /\ netCalls' = netCalls + 1
    /\ lastCall' = "miss"
    /\ pc' = "parse"
    /\ UNCHANGED <<now, df, error, sel_city, city_df, shown, sample>>

\* raw = fetch_cwa_weather(), the function body runs and raises.
FetchFail ==
    /\ pc = "step1"
    /\ ~CacheValid(cache, now)
    /\ netCalls < MaxCalls
    /\ \E e \in FetchFailures :
        /\ error' = ExceptHandler(e).error
        /\ pc' = ExceptHandler(e).pc
    /\ cache' = CacheAfterFailure(cache)
    /\ netCalls' = netCalls + 1
    /\ lastCall' = "miss"
    /\ UNCHANGED <<now, raw, df, sel_city, city_df, shown, sample>>

\* df = parse_cwa_data(raw), inside the try of step1.
Parse ==
    /\ pc = "parse"
    /\ LET r == ParseCwaData(raw)
       IN  IF r.ok
           THEN /\ df' = [bound |-> TRUE, rows |-> r.rows]
                /\ pc' = "step2"
                /\ UNCHANGED error
           ELSE /\ error' = ExceptHandler(r.err).error
                /\ pc' = ExceptHandler(r.err).pc
                /\ UNCHANGED df
    /\ UNCHANGED <<now, cache, netCalls, lastCall, raw, sel_city, city_df, shown, sample>>

\* step2: the selectbox returns one of its options (None when it has none),
\* and city_df is the chosen city's rows sorted by startTime.  A frame that
\* was never bound, or has no "city" column, ends the run with an uncaught
\* exception.
Select ==
    /\ pc = "step2"
    /\ IF ~df.bound \/ "city" \notin Columns(df.rows)
       THEN /\ pc' = "crashed"
            /\ UNCHANGED <<sel_city, city_df>>
       ELSE /\ \E c \in (IF Cities(df.rows) = <<>> THEN {None}
                         ELSE { Cities(df.rows)[i] : i \in 1..Len(Cities(df.rows)) }) :
                 /\ sel_city' = c
                 /\ city_df' \in SortValues(FilterCity(df.rows, c))
            /\ pc' = "step3"
    /\ UNCHANGED <<now, cache, netCalls, lastCall, raw, df, error, shown, sample>>

\* step3 and step4: the two charts and the table draw city_df.
Render ==
    /\ pc = "step3"
    /\ shown' = city_df
    /\ pc' = "step5"
    /\ UNCHANGED <<now, cache, netCalls, lastCall, raw, df, error, sel_city,
                   city_df, sample>>

\* step5, button not pressed: the run ends.
NoSummary ==
    /\ pc = "step5"
    /\ pc' = "done"
    /\ UNCHANGED <<now, cache, netCalls, lastCall, raw, df, error, sel_city,
                   city_df, shown, sample>>

\* step5, button pressed: sample = city_df.iloc[0], an IndexError on an
\* empty frame; the Gemini call's own failure is caught and shown.
Summary ==
    /\ pc = "step5"
    /\ IF city_df = <<>>
       THEN /\ pc' = "crashed"
            /\ UNCHANGED sample
       ELSE /\ sample' = <<city_df[1]>>
            /\ pc' = "done"
    /\ UNCHANGED <<now, cache, netCalls, lastCall, raw, df, error, sel_city,
                   city_df, shown>>

\* A user interaction runs the script again, in a fresh namespace.
Rerun ==
    /\ pc \in {"done", "stopped", "crashed"}
    /\ pc' = "step1"
    /\ raw' = NoDocument
    /\ df' = Unbound
    /\ error' = "none"
    /\ sel_city' = None
    /\ city_df' = <<>>
    /\ shown' = <<>>
    /\ sample' = <<>>
    /\ UNCHANGED <<now, cache, netCalls, lastCall>>

Next ==
    \/ Tick
    \/ FetchHit
    \/ FetchOk
    \/ FetchFail
    \/ Parse
    \/ Select
    \/ Render
    \/ NoSummary
    \/ Summary
    \/ Rerun

Spec == Init /\ [][Next]_vars

----------------------------------------------------------------------------
(* parse_cwa_data and the selection on their own, over every document *)

InitPipeline ==
    /\ now = 0
    /\ cache = EmptyCache
    /\ netCalls = 0
    /\ lastCall = "none"
    /\ pc = "parse"
    /\ raw \in Documents
    /\ df = Unbound
    /\ error = "none"
    /\ sel_city = None
    /\ city_df = <<>>
    /\ shown = <<>>
    /\ sample = <<>>

NextPipeline ==
    \/ Parse
    \/ Select

SpecPipeline == InitPipeline /\ [][NextPipeline]_vars

----------------------------------------------------------------------------
(* What the claims speak of *)

Required == {"Wx", "PoP", "MinT", "MaxT"}

HasStructure(d) == "records" \in DOMAIN d /\ "location" \in DOMAIN d.records

HasSeries(loc, name) ==
    \E i \in 1..Len(loc.weatherElement) : loc.weatherElement[i].elementName = name

SeriesOf(loc, name) ==
    loc.weatherElement[CHOOSE i \in 1..Len(loc.weatherElement) :
                          loc.weatherElement[i].elementName = name].time

\* A region whose four required series exist and are as long as Wx.
WellFormed(loc) ==
    /\ \A name \in Required : HasSeries(loc, name)
    /\ \A name \in Required : Len(SeriesOf(loc, name)) = Len(SeriesOf(loc, "Wx"))

Points(loc) == IF WellFormed(loc) THEN Len(SeriesOf(loc, "Wx")) ELSE 0

RECURSIVE SumPoints(_, _)
SumPoints(locs, k) ==
    IF k > Len(locs) THEN 0 ELSE Points(locs[k]) + SumPoints(locs, k + 1)

\* A text is a number when it is the decimal text of one.
NumberTexts == { NumText(k) : k \in -99..99 }

TextValue == [t \in NumberTexts |-> CHOOSE k \in -99..99 : NumText(k) = t]

ParsesAsNumber(s) == s \in NumberTexts

NumberOf(s) == TextValue[s]

Optional(s) == IF ParsesAsNumber(s) THEN <<NumberOf(s)>> ELSE <<>>

\* The record the specification builds from position i of a region's series.
RecordAt(loc, i) ==
    [city |-> loc.locationName,
     startTime |-> SeriesOf(loc, "Wx")[i].startTime,
     endTime |-> SeriesOf(loc, "Wx")[i].endTime,
     weather |-> SeriesOf(loc, "Wx")[i].parameter.parameterName,
     pop |-> Optional(SeriesOf(loc, "PoP")[i].parameter.parameterName),
     minT |-> Optional(SeriesOf(loc, "MinT")[i].parameter.parameterName),
     maxT |-> Optional(SeriesOf(loc, "MaxT")[i].parameter.parameterName)]

\* The records of the well-formed regions from region k on, in document order.
RECURSIVE ExpectedRecords(_, _)
ExpectedRecords(locs, k) ==
    IF k > Len(locs) THEN <<>>
    ELSE [i \in 1..Points(locs[k]) |-> RecordAt(locs[k], i)]
         \o ExpectedRecords(locs, k + 1)

\* parse_cwa_data has been called on raw and has returned or raised.
Normalized ==
    \/ pc \in {"step2", "step3", "step5", "done"}
    \/ pc = "stopped" /\ error \notin FetchFailures

Returned == Normalized /\ df.bound

----------------------------------------------------------------------------
(* C3 *)

\* C3: a region with a required series missing, or of a length other than
\* the Wx series', is skipped: normalization returns, none of the region's
\* records is in the output, and the other regions' records all are (stated
\* for documents in which some other region has a record to emit).
C3_MalformedRegionSkipped ==
    (/\ Normalized
     /\ HasStructure(raw)
     /\ \E k \in 1..Len(raw.records.location) : ~WellFormed(raw.records.location[k])
     /\ SumPoints(raw.records.location, 1) >= 1)
    => /\ df.bound
       /\ Len(df.rows) = SumPoints(raw.records.location, 1)
       /\ \A k \in 1..Len(raw.records.location) :
            LET loc == raw.records.location[k]
            IN  (~WellFormed(loc)
                 /\ \A j \in 1..Len(raw.records.location) :
                      WellFormed(raw.records.location[j])
                      => raw.records.location[j].locationName # loc.locationName)
                => \A i \in 1..Len(df.rows) : df.rows[i].city # loc.locationName

(* C4 *)

\* C4: for a document with the records/location structure the output is the
\* concatenation, in region order, of each non-skipped region's records in
\* series order, record i built from position i of the four series.
C4_OutputIsConcatenation ==
    (Normalized /\ HasStructure(raw))
    => /\ df.bound
       /\ df.rows = ExpectedRecords(raw.records.location, 1)

(* C5 *)

\* The region and the position each row was built from: for every region in
\* order, one pair per entry of its Wx series.
RECURSIVE Sources(_, _)
Sources(locs, k) ==
    IF k > Len(locs) THEN <<>>
    ELSE [i \in 1..Len(SeriesOf(locs[k], "Wx")) |-> <<k, i>>] \o Sources(locs, k + 1)

NumericColumn == [pop |-> "PoP", minT |-> "MinT", maxT |-> "MaxT"]

\* A region that has the four series, none shorter than Wx: the row literal
\* finds every value it reads.
Readable(loc) ==
    /\ \A name \in Required : HasSeries(loc, name)
    /\ \A name \in Required : Len(SeriesOf(loc, name)) >= Len(SeriesOf(loc, "Wx"))

\* C5: in every frame parse_cwa_data returns, each row built from the source
\* is still there, a pop, minT or maxT text that is not a number has become
\* the empty value, one that is a number has become that number, and the
\* row's other fields are the source's; and to_numeric raises nothing: a
\* document whose rows can all be built, and has one, yields a frame.
C5_UnparsableBecomesEmpty ==
    /\ Returned =>
         LET locs == raw.records.location
             src == Sources(locs, 1)
         IN  /\ Len(df.rows) = Len(src)
             /\ \A r \in 1..Len(src) :
                  LET loc == locs[src[r][1]]
                      i == src[r][2]
                      row == df.rows[r]
                  IN  /\ row.city = loc.locationName
                      /\ row.startTime = SeriesOf(loc, "Wx")[i].startTime
                      /\ row.endTime = SeriesOf(loc, "Wx")[i].endTime
                      /\ row.weather = SeriesOf(loc, "Wx")[i].parameter.parameterName
                      /\ \A col \in DOMAIN NumericColumn :
                           LET text == SeriesOf(loc, NumericColumn[col])[i].parameter.parameterName
                           IN  IF ParsesAsNumber(text)
                               THEN row[col] = <<NumberOf(text)>>
                               ELSE row[col] = NaN
    /\ (/\ Normalized
        /\ HasStructure(raw)
        /\ \A k \in 1..Len(raw.records.location) : Readable(raw.records.location[k])
        /\ Len(Sources(raw.records.location, 1)) >= 1)
       => df.bound

\* A returned frame with a row whose minT did not parse and whose pop did.
C5_Witness ==
    /\ Returned
    /\ \E r \in 1..Len(df.rows) : df.rows[r].minT = NaN /\ df.rows[r].pop # NaN

(* C6 *)

\* C6: every record carries approx_temp, the exact midpoint of min_temp and
\* max_temp when both parsed, and empty otherwise.
C6_ApproxTempIsMidpoint ==
    Returned =>
      \A r \in 1..Len(df.rows) :
         /\ "approx_temp" \in DOMAIN df.rows[r]
         /\ IF df.rows[r].minT # NaN /\ df.rows[r].maxT # NaN
            THEN /\ df.rows[r].approx_temp # NaN
                 /\ 2 * df.rows[r].approx_temp[1] = df.rows[r].minT[1] + df.rows[r].maxT[1]
            ELSE df.rows[r].approx_temp = NaN

(* C7 *)

\* A stable sort by startTime: among the least, the earliest row first.
RECURSIVE StableOrder(_, _)
StableOrder(rows, S) ==
    IF S = {} THEN <<>>
    ELSE LET i == CHOOSE k \in Least(rows, S) : \A j \in Least(rows, S) : k <= j
         IN  <<rows[i]>> \o StableOrder(rows, S \ {i})

\* C7: the selection holds exactly the chosen region's records, sorted
\* non-decreasing by interval_start, records of equal interval_start in
\* their original relative order.
C7_ForRegionStableSorted ==
    (pc = "step3" /\ df.bound)
    => city_df = StableOrder(FilterCity(df.rows, sel_city),
                             1..Len(FilterCity(df.rows, sel_city)))

(* C9 *)

\* C9: for a document with the records/location structure whose regions are
\* all well-formed, a region with zero time points adds no record and
\* normalization returns, with an empty record set when no region adds any.
C9_NoRecordsIsNotAnError ==
    (/\ Normalized
     /\ HasStructure(raw)
     /\ \A k \in 1..Len(raw.records.location) : WellFormed(raw.records.location[k])
     /\ \/ raw.records.location = <<>>
        \/ \E k \in 1..Len(raw.records.location) : Points(raw.records.location[k]) = 0)
    => /\ df.bound
       /\ Len(df.rows) = SumPoints(raw.records.location, 1)

----------------------------------------------------------------------------
(* The claims about the whole script, under Spec *)

\* A step that is one call of fetch_cwa_weather().
FetchCall == pc = "step1" /\ pc' # "step1"

(* C1 *)

C2_FailedFetchLeavesCache ==
    [][(FetchCall /\ error' \in FetchFailures) =>
         /\ cache' = cache
         /\ raw' = raw
         /\ pc' = "stopped"]_vars

\* A request has failed while the cache held an entry, which is still there.
C2_Witness ==
    /\ pc = "stopped"
    /\ error \in FetchFailures
    /\ cache.has

(* C8 *)

\* C8: a run in which the fetch or parse_cwa_data raises shows the error and
\* stops: the next thing to happen is a new run, no selection, chart, table
\* or summary step has run, and those steps only ever see the frame that
\* parse_cwa_data returned for the fetched document.
C8_FailureHaltsCycle ==
    /\ [][(pc = "parse" /\ ~ParseCwaData(raw).ok) => error' # "none"]_vars
    /\ [][(pc \in {"step1", "parse"} /\ error' # "none") => pc' = "stopped"]_vars
    /\ [][pc = "stopped" => pc' = "step1"]_vars
    /\ [](error # "none" =>
            /\ pc = "stopped"
            /\ ~df.bound
            /\ sel_city = None /\ city_df = <<>> /\ shown = <<>> /\ sample = <<>>)
    /\ [](pc \in {"step2", "step3", "step5", "done", "crashed"} =>
            /\ error = "none"
            /\ df.bound
            /\ ParseCwaData(raw).ok
            /\ df.rows = ParseCwaData(raw).rows)

\* parse_cwa_data raised on a fetched document and the run has stopped.
C8_Witness ==
    /\ pc = "stopped"
    /\ error = "IndexError"
    /\ lastCall = "miss"

(* C10 *)

\* C10: the selection step is reached only with a non-empty frame, the
\* selected city is one of the frame's cities, and its rows are not empty,
\* so city_df.iloc[0] never faults.
C10_CurrentRecordExists ==
    /\ pc \in {"step2", "step3", "step5", "done"} => (df.bound /\ df.rows # <<>>)
    /\ pc \in {"step3", "step5", "done"} =>
         /\ \E i \in 1..Len(df.rows) : df.rows[i].city = sel_city
         /\ city_df # <<>>
    /\ sample # <<>> => sample[1] = city_df[1]
    /\ pc # "crashed"

\* The summary step has taken the current record.
C10_Witness == pc = "done" /\ sample # <<>>

====
